---------------------------- MODULE Spec2Model ----------------------------
(***************************************************************************)
(* The FaceDetector component of src/src/FaceDetector.tsx as a state       *)
(* machine: the one-time model load, the 1500 ms detection interval and    *)
(* the effect that re-arms it, the detectFaces cycles awaiting the         *)
(* detection library, the published React state and the overlay canvas.    *)
(*                                                                         *)
(* React state is the committed state the render function observes.  The   *)
(* updates one JavaScript task enqueues are committed together, and the    *)
(* effects of a commit caused by a click or a change event are flushed     *)
(* with it (React 18), so an event handler, its commit and the effect     *)
(* cleanup/body it triggers form one action.                               *)
(*                                                                         *)
(* Time is discrete: one Tick is TickMs milliseconds, and a timer that is  *)
(* due fires before time advances further.                                 *)
(***************************************************************************)
EXTENDS Integers, Sequences, FiniteSets, Bags

(***************************************************************************)
(* Bounds of the model.                                                    *)
(***************************************************************************)
\* detectFaces calls that may await the library at the same time
MaxInFlight == 2
\* faces one detection returns
MaxFaces == 1
\* Ticks in one period of the interval: the resolution of time
TicksPerPeriod == 2
\* the probabilities of the pure-function specification are k/MaxProb
MaxProb == 2

(***************************************************************************)
(* Program constants.                                                      *)
(***************************************************************************)
\* setInterval(detectFaces, 1500)
IntervalMs == 1500

\* milliseconds of one Tick
TickMs == IntervalMs \div TicksPerPeriod

\* the period of the interval in Ticks
Period == IntervalMs \div TickMs

\* the five nets loadModels loads
Nets == {"tinyFaceDetector", "faceLandmark68Net", "faceRecognitionNet",
         "faceExpressionNet", "ageGenderNet"}

DisplayModes == {"landmarks", "expressions", "mesh"}

\* the expression categories, in the iteration order of the mapping
Categories == <<"neutral", "happy", "sad", "angry", "fearful", "disgusted",
                "surprised">>

VARIABLES
    mounted,            \* the component is mounted: webcamRef, canvasRef set
    loads,              \* per net: "pending", "ok" or "failed"
    loadPc,             \* loadModels: "awaiting", "loaded" or "failed"
    isModelLoaded,
    facesDetected,
    detectionEnabled,
    facesData,
    displayMode,
    showDetails,
    detectionInterval,  \* the ref: id of the timer armed last, 0 = undefined
    timers,             \* the armed interval timers of the event loop
    inflight,           \* bag of the closures of detectFaces calls awaiting
    canvas,             \* what the overlay canvas shows
    unhandledRejection, \* an error escaped detectFaces
    lastCycleDetections,\* the detections of the cycle that published last
    lastEnd,            \* how the cycle that ended last ended: "none",
                        \* "failed", "drawn", or "drawnStale" when drawn
                        \* after a setting of its closure had changed
    modeChange,         \* "none", "pending", "served": the last mode change
    sinceModeChange,    \* Ticks since that change, while it is pending
    exprInput,          \* pure-function specification: the mapping
    exprOutput,         \*   the label returned for it
    exprDone            \*   the function has been applied

vars == <<mounted, loads, loadPc, isModelLoaded, facesDetected,
          detectionEnabled, facesData, displayMode, showDetails,
          detectionInterval, timers, inflight, canvas,
          unhandledRejection, lastCycleDetections, lastEnd, modeChange,
          sinceModeChange, exprInput, exprOutput, exprDone>>

exprVars == <<exprInput, exprOutput, exprDone>>

componentVars == <<mounted, loads, loadPc, isModelLoaded, facesDetected,
          detectionEnabled, facesData, displayMode, showDetails,
          detectionInterval, timers, inflight, canvas,
          unhandledRejection, lastCycleDetections, lastEnd, modeChange,
          sinceModeChange>>

(***************************************************************************)
(* Pure functions.                                                         *)
(***************************************************************************)

RECURSIVE ForEachEntryLastWins(_, _, _, _)
ForEachEntryLastWins(expressions, i, maxValue, dominantExpression) ==
    IF i > Len(expressions) THEN dominantExpression
    ELSE IF expressions[i] >= maxValue
         THEN ForEachEntryLastWins(expressions, i + 1, expressions[i],
                                   Categories[i])
         ELSE ForEachEntryLastWins(expressions, i + 1, maxValue,
                                   dominantExpression)

\* Faulty variant: >= instead of >, so the last greatest entry wins.
getDominantExpressionLastWins(expressions) ==
    ForEachEntryLastWins(expressions, 1, 0, "")

\* The forEach over Object.entries(expressions) from entry i on, with the
\* values the two locals have before it.  expressions[i] is the probability
\* of Categories[i].
RECURSIVE ForEachEntry(_, _, _, _)
ForEachEntry(expressions, i, maxValue, dominantExpression) ==
    IF i > Len(expressions) THEN dominantExpression
    ELSE IF expressions[i] > maxValue
         THEN ForEachEntry(expressions, i + 1, expressions[i], Categories[i])
         ELSE ForEachEntry(expressions, i + 1, maxValue, dominantExpression)

getDominantExpression(expressions) == ForEachEntry(expressions, 1, 0, "")

\* Math.round of an age given in tenths of a year
RoundAge(ageTenths) == (ageTenths + 5) \div 10

\* parseFloat(value.toFixed(2)) of a probability given in thousandths:
\* the result in hundredths
RoundProbability(thousandths) == (thousandths + 5) \div 10

\* The detection fixtures: face k of a frame.  Probabilities in thousandths,
\* age in tenths of a year.
FixtureFace(k) ==
    IF k = 1
    THEN [gender |-> "male", age |-> 236,
          expressions |-> <<100, 700, 200, 0, 0, 0, 0>>]
    ELSE IF k = 2
    THEN [gender |-> "female", age |-> 304,
          expressions |-> <<334, 4, 334, 0, 0, 0, 328>>]
    ELSE [gender |-> "", age |-> 0,
          expressions |-> <<0, 0, 0, 0, 0, 0, 0>>]

\* what detectAllFaces may return
Detections == {[k \in 1..n |-> FixtureFace(k)] : n \in 0..MaxFaces}

\* detections.map(detection => ({gender, age, emotion, expressions}))
ToFaceData(detection) ==
    [gender |-> IF detection.gender = "" THEN "desconocido"
                ELSE detection.gender,
     age |-> RoundAge(detection.age),
     emotion |-> getDominantExpression(detection.expressions),
     expressions |-> [i \in 1..Len(detection.expressions) |->
                        RoundProbability(detection.expressions[i])]]

FaceDataArray(detections) ==
    [i \in 1..Len(detections) |-> ToFaceData(detections[i])]

(***************************************************************************)
(* Timers and the interval effect.                                         *)
(***************************************************************************)

\* the values of the render a detectFaces closure was created in
Closure(loaded, enabled, mode, details) ==
    [isModelLoaded |-> loaded, detectionEnabled |-> enabled,
     displayMode |-> mode, showDetails |-> details]

CurrentClosure ==
    Closure(isModelLoaded, detectionEnabled, displayMode, showDetails)

ClearInterval(ts, id) == {t \in ts : t.id # id}

\* Faulty variant: the cleanup forgets to clear the interval.
EffectCleanupNoClear(ts, ref) == ts

\* the cleanup the interval effect returns
EffectCleanup(ts, ref) == IF ref # 0 THEN ClearInterval(ts, ref) ELSE ts

\* The handle setInterval returns: one no armed timer has.  A browser never
\* hands out a handle twice; the component keeps a handle only in the ref,
\* so the model takes the least handle that is neither armed nor in the ref.
SetInterval(ts, ref) ==
    CHOOSE id \in 1..(Cardinality(ts) + 2) :
        /\ id # ref
        /\ \A t \in ts : t.id # id
        /\ \A smaller \in 1..(id - 1) :
               smaller = ref \/ \E t \in ts : t.id = smaller

\* The interval effect re-run for the render with the given values: the
\* cleanup of the previous run, then the body.
RunIntervalEffect(loaded, enabled, mode, details) ==
    LET cleaned == EffectCleanup(timers, detectionInterval) IN
    IF loaded /\ enabled
    THEN LET id == SetInterval(cleaned, detectionInterval) IN
         /\ timers' = cleaned \cup
                {[id |-> id, remaining |-> Period,
                  fn |-> Closure(loaded, enabled, mode, details)]}
         /\ detectionInterval' = id
    ELSE /\ timers' = IF detectionInterval # 0
                      THEN ClearInterval(cleaned, detectionInterval)
                      ELSE cleaned
         /\ UNCHANGED detectionInterval

(***************************************************************************)
(* Initial state: mounted, loadModels awaiting the five loads, the         *)
(* interval effect run once with isModelLoaded = false.                    *)
(***************************************************************************)
BlankCanvas ==
    [drawn |-> FALSE, displayMode |-> "none", showDetails |-> FALSE]

ComponentInit ==
    /\ mounted = TRUE
    /\ loads = [n \in Nets |-> "pending"]
    /\ loadPc = "awaiting"
    /\ isModelLoaded = FALSE
    /\ facesDetected = 0
    /\ detectionEnabled = TRUE
    /\ facesData = <<>>
    /\ displayMode = "landmarks"
    /\ showDetails = TRUE
    /\ detectionInterval = 0
    /\ timers = {}
    /\ inflight = EmptyBag
    /\ canvas = BlankCanvas
    /\ unhandledRejection = FALSE
    /\ lastCycleDetections = <<>>
    /\ lastEnd = "none"
    /\ modeChange = "none"
    /\ sinceModeChange = 0

Init ==
    /\ ComponentInit
    /\ exprInput = [i \in 1..Len(Categories) |-> 0]
    /\ exprOutput = ""
    /\ exprDone = FALSE

(***************************************************************************)
(* loadModels.                                                             *)
(***************************************************************************)
LoadSucceeds(n) ==
    /\ loads[n] = "pending"
    /\ loads' = [loads EXCEPT ![n] = "ok"]
    /\ UNCHANGED <<mounted, loadPc, isModelLoaded, facesDetected,
                   detectionEnabled, facesData, displayMode, showDetails,
                   detectionInterval, timers, inflight, canvas,
                   unhandledRejection, lastCycleDetections, lastEnd,
                   modeChange, sinceModeChange, exprVars>>

LoadFails(n) ==
    /\ loads[n] = "pending"
    /\ loads' = [loads EXCEPT ![n] = "failed"]
    /\ UNCHANGED <<mounted, loadPc, isModelLoaded, facesDetected,
                   detectionEnabled, facesData, displayMode, showDetails,
                   detectionInterval, timers, inflight, canvas,
                   unhandledRejection, lastCycleDetections, lastEnd,
                   modeChange, sinceModeChange, exprVars>>

\* Faulty variant: the load counts as done once any one net has loaded.
PromiseAllFulfilledAny(ls) == \E n \in Nets : ls[n] = "ok"

\* Promise.all fulfils when every promise has
PromiseAllFulfilled(ls) == \A n \in Nets : ls[n] = "ok"

\* Promise.all rejects with the first rejection
PromiseAllRejected(ls) == \E n \in Nets : ls[n] = "failed"

\* The await of loadModels returns: setIsModelLoaded(true), and the commit
\* re-runs the interval effect.  On an unmounted component the update is
\* dropped.
LoadModelsResolves ==
    /\ loadPc = "awaiting"
    /\ PromiseAllFulfilled(loads)
    /\ loadPc' = "loaded"
    /\ IF mounted
       THEN /\ isModelLoaded' = TRUE
            /\ RunIntervalEffect(TRUE, detectionEnabled, displayMode,
                                 showDetails)
       ELSE UNCHANGED <<isModelLoaded, timers, detectionInterval>>
    /\ UNCHANGED <<mounted, loads, facesDetected, detectionEnabled,
                   facesData, displayMode, showDetails, inflight, canvas,
                   unhandledRejection, lastCycleDetections, lastEnd,
                   modeChange, sinceModeChange, exprVars>>

\* The await of loadModels throws: the catch logs the error.
LoadModelsRejects ==
    /\ loadPc = "awaiting"
    /\ PromiseAllRejected(loads)
    /\ loadPc' = "failed"
    /\ UNCHANGED <<mounted, loads, isModelLoaded, facesDetected,
                   detectionEnabled, facesData, displayMode, showDetails,
                   detectionInterval, timers, inflight, canvas,
                   unhandledRejection, lastCycleDetections, lastEnd,
                   modeChange, sinceModeChange, exprVars>>

(***************************************************************************)
(* The settings controls.  Each handler sets one state variable; the       *)
(* commit re-runs the interval effect, whose dependencies changed.         *)
(***************************************************************************)

\* onClick={() => setDetectionEnabled(!detectionEnabled)}
ToggleDetection ==
    /\ mounted
    /\ detectionEnabled' = ~detectionEnabled
    /\ RunIntervalEffect(isModelLoaded, ~detectionEnabled, displayMode,
                         showDetails)
    /\ modeChange' = "none"
    /\ sinceModeChange' = 0
    /\ UNCHANGED <<mounted, loads, loadPc, isModelLoaded, facesDetected,
                   facesData, displayMode, showDetails, inflight, canvas,
                   unhandledRejection, lastCycleDetections, lastEnd,
                   exprVars>>

\* Faulty variant: displayMode is missing from the effect's dependencies, so the
\* change leaves the armed timer and its closure alone.
SetDisplayModeNoRearm(m) ==
    /\ mounted
    /\ m # displayMode
    /\ displayMode' = m
    /\ modeChange' = IF isModelLoaded /\ detectionEnabled THEN "pending"
                     ELSE "none"
    /\ sinceModeChange' = 0
    /\ UNCHANGED <<mounted, loads, loadPc, isModelLoaded, facesDetected,
                   detectionEnabled, facesData, showDetails, inflight,
                   canvas, unhandledRejection, lastCycleDetections, lastEnd,
                   timers, detectionInterval, exprVars>>

\* onChange={(e) => setDisplayMode(e.target.value)}
SetDisplayMode(m) ==
    /\ mounted
    /\ m # displayMode
    /\ displayMode' = m
    /\ RunIntervalEffect(isModelLoaded, detectionEnabled, m, showDetails)
    /\ modeChange' = IF isModelLoaded /\ detectionEnabled THEN "pending"
                     ELSE "none"
    /\ sinceModeChange' = 0
    /\ UNCHANGED <<mounted, loads, loadPc, isModelLoaded, facesDetected,
                   detectionEnabled, facesData, showDetails, inflight,
                   canvas, unhandledRejection, lastCycleDetections, lastEnd,
                   exprVars>>

\* onClick={() => setShowDetails(!showDetails)}
ToggleDetails ==
    /\ mounted
    /\ showDetails' = ~showDetails
    /\ RunIntervalEffect(isModelLoaded, detectionEnabled, displayMode,
                         ~showDetails)
    /\ modeChange' = "none"
    /\ sinceModeChange' = 0
    /\ UNCHANGED <<mounted, loads, loadPc, isModelLoaded, facesDetected,
                   detectionEnabled, facesData, displayMode, inflight,
                   canvas, unhandledRejection, lastCycleDetections, lastEnd,
                   exprVars>>

(***************************************************************************)
(* Time and the interval timer.                                            *)
(***************************************************************************)

\* TickMs milliseconds pass; no armed timer is due.
Tick ==
    /\ timers # {} \/ modeChange = "pending"
    /\ \A t \in timers : t.remaining > 0
    /\ timers' = {[t EXCEPT !.remaining = t.remaining - 1] : t \in timers}
    /\ sinceModeChange' =
           IF modeChange = "pending" /\ sinceModeChange <= Period
           THEN sinceModeChange + 1 ELSE sinceModeChange
    /\ UNCHANGED <<mounted, loads, loadPc, isModelLoaded, facesDetected,
                   detectionEnabled, facesData, displayMode, showDetails,
                   detectionInterval, inflight, canvas,
                   unhandledRejection, lastCycleDetections, lastEnd,
                   modeChange, exprVars>>

\* the guard of detectFaces, evaluated on the values of its closure
DetectFacesRuns(fn) ==
    mounted /\ fn.isModelLoaded /\ fn.detectionEnabled

\* The interval fires: it stays armed for the next period and calls the
\* detectFaces closure it was armed with, which returns at once or calls the
\* detection library and awaits the result.
TimerFires(t) ==
    /\ t \in timers
    /\ t.remaining = 0
    /\ timers' = (timers \ {t}) \cup {[t EXCEPT !.remaining = Period]}
    /\ IF DetectFacesRuns(t.fn)
       THEN /\ BagCardinality(inflight) < MaxInFlight
            /\ inflight' = inflight (+) SetToBag({t.fn})
            /\ modeChange' =
                   IF modeChange = "pending" /\ t.fn.displayMode = displayMode
                   THEN "served" ELSE modeChange
       ELSE UNCHANGED <<inflight, modeChange>>
    /\ UNCHANGED <<mounted, loads, loadPc, isModelLoaded, facesDetected,
                   detectionEnabled, facesData, displayMode, showDetails,
                   detectionInterval, canvas,
                   unhandledRejection, lastCycleDetections, lastEnd,
                   sinceModeChange, exprVars>>

(***************************************************************************)
(* The end of a detectFaces call.                                          *)
(***************************************************************************)

\* Faulty variant: the collection is not published with the count.
PublishCountOnly(detections) ==
    IF mounted
    THEN /\ facesDetected' = Len(detections)
         /\ lastCycleDetections' = detections
         /\ UNCHANGED facesData
    ELSE UNCHANGED <<facesDetected, facesData, lastCycleDetections>>

\* setFacesDetected(detections.length); setFacesData(faceDataArray): one
\* commit.  On an unmounted component the updates are dropped.
Publish(detections) ==
    IF mounted
    THEN /\ facesDetected' = Len(detections)
         /\ facesData' = FaceDataArray(detections)
         /\ lastCycleDetections' = detections
    ELSE UNCHANGED <<facesDetected, facesData, lastCycleDetections>>

\* Faulty variant: the overlay is drawn with the settings current at the draw.
DrawOverlayCurrentSettings(fn, detections) ==
    canvas' = [drawn |-> TRUE, displayMode |-> displayMode,
               showDetails |-> showDetails]

\* clearRect, drawDetections, the drawing of the closure's display mode and,
\* if the closure's showDetails is set, the info panels
DrawOverlay(fn, detections) ==
    canvas' = [drawn |-> TRUE, displayMode |-> fn.displayMode,
               showDetails |-> fn.showDetails]

\* The detection a detectFaces call awaits resolves.
DetectResolves(fn, detections) ==
    /\ fn \in BagToSet(inflight)
    /\ inflight' = inflight (-) SetToBag({fn})
    /\ Publish(detections)
    /\ DrawOverlay(fn, detections)
    /\ lastEnd' = IF fn = CurrentClosure THEN "drawn" ELSE "drawnStale"
    /\ UNCHANGED <<mounted, loads, loadPc, isModelLoaded, detectionEnabled,
                   displayMode, showDetails, detectionInterval, timers,
                   unhandledRejection, modeChange,
                   sinceModeChange, exprVars>>

\* Faulty variant: the catch blanks the published state.
CatchClearsPublished ==
    /\ facesDetected' = 0
    /\ facesData' = <<>>
    /\ UNCHANGED <<lastCycleDetections, canvas, unhandledRejection>>

\* catch (error) { console.error(...) }
CatchDetectionError ==
    UNCHANGED <<facesDetected, facesData, lastCycleDetections, canvas,
                unhandledRejection>>

\* The detection a detectFaces call awaits throws.
DetectRejects(fn) ==
    /\ fn \in BagToSet(inflight)
    /\ inflight' = inflight (-) SetToBag({fn})
    /\ CatchDetectionError
    /\ lastEnd' = "failed"
    /\ UNCHANGED <<mounted, loads, loadPc, isModelLoaded, detectionEnabled,
                   displayMode, showDetails, detectionInterval, timers,
                   modeChange, sinceModeChange, exprVars>>

(***************************************************************************)
(* Teardown.                                                               *)
(***************************************************************************)

\* Faulty variant: teardown leaves the interval armed.
UnmountNoClear ==
    /\ mounted
    /\ mounted' = FALSE
    /\ modeChange' = "none"
    /\ sinceModeChange' = 0
    /\ UNCHANGED <<timers, loads, loadPc, isModelLoaded, facesDetected,
                   detectionEnabled, facesData, displayMode, showDetails,
                   detectionInterval, inflight, canvas,
                   unhandledRejection, lastCycleDetections, lastEnd,
                   exprVars>>

\* The component unmounts: the cleanups of both effects run and the refs to
\* the video and the canvas are reset.
Unmount ==
    /\ mounted
    /\ mounted' = FALSE
    /\ timers' = EffectCleanup(EffectCleanup(timers, detectionInterval),
                               detectionInterval)
    /\ modeChange' = "none"
    /\ sinceModeChange' = 0
    /\ UNCHANGED <<loads, loadPc, isModelLoaded, facesDetected,
                   detectionEnabled, facesData, displayMode, showDetails,
                   detectionInterval, inflight, canvas,
                   unhandledRejection, lastCycleDetections, lastEnd,
                   exprVars>>

Next ==
    \/ \E n \in Nets : LoadSucceeds(n)
    \/ \E n \in Nets : LoadFails(n)
    \/ LoadModelsResolves
    \/ LoadModelsRejects
    \/ ToggleDetection
    \/ \E m \in DisplayModes : SetDisplayMode(m)
    \/ ToggleDetails
    \/ Tick
    \/ \E t \in timers : TimerFires(t)
    \/ \E fn \in BagToSet(inflight), d \in Detections : DetectResolves(fn, d)
    \/ \E fn \in BagToSet(inflight) : DetectRejects(fn)
    \/ Unmount

Spec == Init /\ [][Next]_vars

(***************************************************************************)
(* The specification of the pure function getDominantExpression: the       *)
(* initial states draw the mapping, the action applies the function.       *)
(***************************************************************************)

\* probabilities k/MaxProb, in thousandths
ProbValues == {(k * 1000) \div MaxProb : k \in 0..MaxProb}

ExprInit ==
    /\ ComponentInit
    /\ exprInput \in [1..Len(Categories) -> ProbValues]
    /\ exprOutput = ""
    /\ exprDone = FALSE

ApplyGetDominantExpression ==
    /\ ~exprDone
    /\ exprOutput' = getDominantExpression(exprInput)
    /\ exprDone' = TRUE
    /\ UNCHANGED <<exprInput, componentVars>>

ExprNext == ApplyGetDominantExpression

ExprSpec == ExprInit /\ [][ExprNext]_vars

(***************************************************************************)
(* Properties.                                                             *)
(***************************************************************************)

InFlight == BagCardinality(inflight)

SettingsChange ==
    \/ detectionEnabled' # detectionEnabled
    \/ displayMode' # displayMode
    \/ showDetails' # showDetails

\* a detectFaces call ends in this step, and ends by drawing
CycleDraws ==
    /\ BagCardinality(inflight') < BagCardinality(inflight)
    /\ lastEnd' \in {"drawn", "drawnStale"}

\* a detectFaces call ends in this step, and ends in the catch
CycleFails ==
    /\ BagCardinality(inflight') < BagCardinality(inflight)
    /\ lastEnd' = "failed"

\* C1 (as claimed): while detection stays off, no step changes the published
\* face count or the published FaceRecord collection, whatever was in flight
\* when it was turned off.
C1_NoPublishWhileOff ==
    [][(~detectionEnabled /\ ~detectionEnabled')
         => (facesDetected' = facesDetected /\ facesData' = facesData)]_vars

\* C2: a cycle whose detection call throws ends with the published face
\* count and FaceRecord collection as they were, and the error does not
\* escape detectFaces.
C2_FailedCycleKeepsPublished ==
    [][CycleFails => /\ facesDetected' = facesDetected
                     /\ facesData' = facesData
                     /\ ~unhandledRejection']_vars

\* a cycle failed after faces had been published, which are still published
C2_Witness == lastEnd = "failed" /\ facesDetected >= 1 /\ facesData # <<>>

\* C3: in every state the renderer observes, the published count is the
\* number of published FaceRecords, both are the number of detections the
\* cycle that published last returned, and the records are those of that
\* same cycle.
C3_CountAndCollectionTogether ==
    /\ facesDetected = Len(facesData)
    /\ facesDetected = Len(lastCycleDetections)
    /\ \A i \in 1..Len(facesData) :
           facesData[i].age = RoundAge(lastCycleDetections[i].age)

\* a cycle has published a face while another cycle is in flight
C3_Witness ==
    /\ lastEnd \in {"drawn", "drawnStale"}
    /\ facesDetected >= 1
    /\ InFlight >= 1

\* C4 (as claimed): at most one detectFaces call awaits its detection at any
\* time.
C4_NoOverlappingCycles == InFlight <= 1

\* C5: the model-ready flag is set only with all five nets loaded; while it
\* is not set (and so for ever once a load has failed) no timer has been
\* armed and no detection has been called.
C5_ReadinessGate ==
    /\ isModelLoaded => \A n \in Nets : loads[n] = "ok"
    /\ (\E n \in Nets : loads[n] = "failed") => ~isModelLoaded
    /\ ~isModelLoaded => /\ timers = {}
                         /\ detectionInterval = 0
                         /\ inflight = EmptyBag
                         /\ lastEnd = "none"
                         /\ ~canvas.drawn
                         /\ facesDetected = 0

\* all five nets loaded, the flag set, and a detection called
C5_Witness ==
    /\ isModelLoaded
    /\ \A n \in Nets : loads[n] = "ok"
    /\ InFlight >= 1

\* C6: after a change of display mode while detection runs, and until
\* another setting changes, a cycle under the new mode has started by the
\* time one interval period has passed.
C6_NewModeCycleWithinPeriod ==
    /\ modeChange \in {"pending", "served"}
           => sinceModeChange * TickMs <= IntervalMs
    /\ modeChange = "served" => isModelLoaded /\ detectionEnabled

\* the cycle under the new mode started one full period after the change
C6_Witness == modeChange = "served" /\ sinceModeChange = Period

\* C7: getDominantExpression returns the first category, in iteration
\* order, that has the greatest probability, and the empty label when every
\* probability is zero.
C7_DominantIsFirstGreatest ==
    exprDone =>
        LET n == Len(exprInput)
            greatest == CHOOSE v \in {exprInput[i] : i \in 1..n} :
                            \A j \in 1..n : exprInput[j] <= v
        IN  IF greatest = 0 THEN exprOutput = ""
            ELSE \E i \in 1..n :
                    /\ exprInput[i] = greatest
                    /\ \A j \in 1..(i - 1) : exprInput[j] < greatest
                    /\ exprOutput = Categories[i]

\* two categories share the greatest probability and the first is returned
C7_Witness ==
    /\ exprDone
    /\ exprInput[1] < exprInput[2]
    /\ exprInput[2] = exprInput[5]
    /\ \A j \in 1..Len(exprInput) : exprInput[j] <= exprInput[2]
    /\ exprOutput = "happy"

\* C8: a change of detection-enabled, display mode or details-visible
\* cancels the armed timer and, with the models loaded and detection
\* enabled, arms a fresh one; at most one timer is ever armed, and an armed
\* timer calls detectFaces with the current values of the settings.
C8_RearmOnSettingsChange ==
    /\ [](Cardinality(timers) <= 1)
    /\ [](\A t \in timers : t.fn = CurrentClosure)
    /\ [][SettingsChange =>
            /\ \A t \in timers : \A u \in timers' : u.id # t.id
            /\ IF isModelLoaded' /\ detectionEnabled'
               THEN \E u \in timers' : /\ u.remaining = Period
                                       /\ u.fn = CurrentClosure'
               ELSE timers' = {}]_vars

\* a settings change has armed a second timer in place of the first
C8_Witness ==
    /\ detectionInterval >= 2
    /\ \E t \in timers : t.id = detectionInterval /\ t.remaining = 0

\* C9: once the component is torn down no timer is armed and no detectFaces
\* call starts a detection.
C9_TeardownStopsCycles ==
    /\ [](~mounted => timers = {})
    /\ [][~mounted => \A fn \in BagToSet(inflight') :
                         CopiesIn(fn, inflight') <= CopiesIn(fn, inflight)]_vars

\* torn down after a timer had been armed and with a cycle in flight
C9_Witness == ~mounted /\ detectionInterval # 0 /\ InFlight >= 1

\* C10: a timer is armed with the settings current at the arming, the
\* cycle a timer starts carries the timer's settings, and the cycle draws
\* under them when its detection resolves, whatever the settings are by
\* then.
C10_CycleDrawsWithArmedSettings ==
    /\ [][\A u \in timers' : (\A t \in timers : t.id # u.id)
                                 => u.fn = CurrentClosure']_vars
    /\ [][\A fn \in BagToSet(inflight') :
            CopiesIn(fn, inflight') > CopiesIn(fn, inflight)
                => \E t \in timers : t.fn = fn /\ t.remaining = 0]_vars
    /\ [][CycleDraws =>
            \E fn \in BagToSet(inflight) :
                /\ inflight' = inflight (-) SetToBag({fn})
                /\ canvas'.drawn
                /\ canvas'.displayMode = fn.displayMode
                /\ canvas'.showDetails = fn.showDetails]_vars

\* a cycle drew under a display mode the user had changed while it was in
\* flight
C10_Witness ==
    /\ lastEnd = "drawnStale"
    /\ canvas.drawn
    /\ canvas.displayMode # displayMode

=============================================================================
